---- MODULE Spec2Model ----
(***************************************************************************)
(* Model of lib/sqlalchemy/log.py: per-instance echo override layered on   *)
(* the hierarchical logging backend.                                       *)
(*                                                                         *)
(* Python strings are sequences of one-character strings, so that name     *)
(* formatting ("%s.%s") and the backend's dotted-name hierarchy are        *)
(* computed and not assumed.  Python's None is PyNone for string-valued    *)
(* attributes and "None" for the echo flag.                                *)
(***************************************************************************)
EXTENDS Integers, Sequences, FiniteSets, TLC

VARIABLES
    _sqla_logger_namespace, \* class attribute read by _qual_logger_name_for_cls
    cls,                    \* instance.__class__
    logging_name,           \* Identified.logging_name
    _echo,                  \* Identified._echo ("NoAttr" before the first build)
    logger,                 \* Identified.logger, the instance's own slot
    cls_logger,             \* cls.logger, set by class_logger
    cls_should_log,         \* the logger captured by the lambdas class_logger installs
    _logged_classes,        \* module-level set
    heap,                   \* InstanceLogger objects: id -> [echo, logger]
    loggerDict,             \* backend registry: name -> [level, handlers]
    manager_disable,        \* logger.manager.disable
    called,                 \* the call just made through instance.logger, if any
    emitted,                \* the records that call handed to the backend's _log
    pcW, wInst, wEcho, wLogger,          \* a thread inside instance_logger
    pcL, lInst, lLevel, lSelf, lSelected, \* a thread inside instance.logger.log
    lResult, lCands

vars == << _sqla_logger_namespace, cls, logging_name, _echo, logger, cls_logger,
           cls_should_log, _logged_classes, heap, loggerDict, manager_disable,
           called, emitted, pcW, wInst, wEcho, wLogger, pcL, lInst, lLevel, lSelf,
           lSelected, lResult, lCands >>

classVars == << _sqla_logger_namespace, cls, logging_name >>
instVars  == << _echo, logger, heap >>
regVars   == << cls_logger, cls_should_log, _logged_classes >>
outVars == << called, emitted >>
threadVars == << pcW, wInst, wEcho, wLogger, pcL, lInst, lLevel, lSelf,
                 lSelected, lResult, lCands >>

----------------------------------------------------------------------------
(* Levels of the logging backend, as log.py names them. *)
NOTSET   == 0
DEBUG    == 10
INFO     == 20
WARNING  == 30
ERROR    == 40
CRITICAL == 50

Levels == {NOTSET, DEBUG, INFO, WARNING, ERROR, CRITICAL}

(* STACKLEVEL / STACKLEVEL_OFFSET: 2 on py3.11 and later, else 1. *)
STACKLEVEL == TRUE
py311 == TRUE
STACKLEVEL_OFFSET == IF py311 THEN 2 ELSE 1

----------------------------------------------------------------------------
(* Inputs. *)
PyNone == << "None" >>
Dot == << "." >>

Classes == {"Engine"}
Instances == {"i1", "i2"}

ModuleOf(c) == << "s" >>
ClassNameOf(c) == << "E" >>

Namespaces == {PyNone, << >>, << "s", ".", "n" >>}
(* Labels: None, and every string over LabelChars of at most MaxLabelLen. *)
MaxLabelLen == 1
LabelChars == {"a", "b"}
Labels == {PyNone} \cup UNION {[1..k -> LabelChars] : k \in 0..MaxLabelLen}
EchoValues == {"None", "False", "True", "debug"}

rootlogger == << "s" >>
ConfigNames == {<< "s", ".", "E" >>}
ConfigLevels == {NOTSET, DEBUG, ERROR}
DisableLevels == {NOTSET, INFO, CRITICAL}
CallLevels == {NOTSET, DEBUG, INFO, WARNING, ERROR, CRITICAL}

Msg == "msg"
Args == << >>

(* Python truthiness of an Optional[str]. *)
Truthy(s) == s # PyNone /\ s # << >>

----------------------------------------------------------------------------
(* The logging backend, as log.py uses it. *)

NewLogger == [level |-> NOTSET, handlers |-> << >>]

(* logging.getLogger(name): the registry creates the logger on first use. *)
getLogger(ld, name) ==
    IF name \in DOMAIN ld THEN ld ELSE ld @@ (name :> NewLogger)

DotPositions(n) == {k \in 1..Len(n) : n[k] = "."}

LastDot(n) == CHOOSE k \in DotPositions(n) : \A j \in DotPositions(n) : j <= k

LevelOf(ld, n) == IF n \in DOMAIN ld THEN ld[n].level ELSE NOTSET

(* The level of the logging package's own root logger, the end of every walk. *)
PyRootLevel == WARNING

(* Logger.getEffectiveLevel(): the first level set on the way to the root. *)
RECURSIVE EffectiveLevel(_, _)
EffectiveLevel(ld, n) ==
    IF LevelOf(ld, n) # NOTSET THEN LevelOf(ld, n)
    ELSE IF DotPositions(n) = {} THEN PyRootLevel
    ELSE EffectiveLevel(ld, SubSeq(n, 1, LastDot(n) - 1))

(* Logger.isEnabledFor(level) of a backend logger. *)
BackendIsEnabledFor(ld, dis, n, level) ==
    IF dis >= level THEN FALSE ELSE level >= EffectiveLevel(ld, n)

Record(n, level, msg, args, exc, stack) ==
    [name |-> n, level |-> level, msg |-> msg, args |-> args,
     exc_info |-> exc, stacklevel |-> stack]

(* Logger.log / debug / ... / exception of a backend logger. *)
BackendLog(ld, dis, n, level, msg, args, exc) ==
    IF BackendIsEnabledFor(ld, dis, n, level)
    THEN << Record(n, level, msg, args, exc, 1) >>
    ELSE << >>

----------------------------------------------------------------------------
(* log.py *)

DefaultHandler ==
    [stream |-> "sys.stdout",
     format |-> "%(asctime)s %(levelname)s %(name)s %(message)s"]

_add_default_handler(ld, n) ==
    [ld EXCEPT ![n].handlers = Append(@, DefaultHandler)]

_qual_logger_name_for_cls(c) ==
    IF Truthy(_sqla_logger_namespace[c])
    THEN _sqla_logger_namespace[c]
    ELSE ModuleOf(c) \o Dot \o ClassNameOf(c)

_echo_map == [e \in EchoValues |->
                 CASE e = "None"  -> NOTSET
                   [] e = "False" -> NOTSET
                   [] e = "True"  -> INFO
                   [] e = "debug" -> DEBUG]

(* Bindings: what a logger slot can hold. *)
IsAdapterRef(b) == b.kind = "InstanceLogger"

NoAttr == [kind |-> "NoAttr", name |-> << >>, id |-> 0]
LoggerRef(n) == [kind |-> "Logger", name |-> n, id |-> 0]
AdapterRef(k) == [kind |-> "InstanceLogger", name |-> << >>, id |-> k]

FreshId(h) == CHOOSE k \in 1..(Cardinality(DOMAIN h) + 1) :
                  k \notin DOMAIN h /\ \A j \in 1..(k - 1) : j \in DOMAIN h

NeedsDefaultHandlerNoCheck(echo, lg) == _echo_map[echo] <= INFO

(* InstanceLogger.__init__: the condition guarding _add_default_handler. *)
NeedsDefaultHandler(echo, lg) ==
    _echo_map[echo] <= INFO /\ lg.handlers = << >>

(* __init__ that also sets the echo level on the shared backend logger. *)
InstanceLogger_sets_level(echo, name, h, ld) ==
    LET ld1 == getLogger(ld, name)
        ld2 == IF NeedsDefaultHandler(echo, ld1[name])
               THEN _add_default_handler(ld1, name) ELSE ld1
        k == FreshId(h)
    IN [self |-> AdapterRef(k),
        heap |-> h @@ (k :> [echo |-> echo, logger |-> name]),
        loggerDict |-> [ld2 EXCEPT ![name].level = _echo_map[echo]]]

(* InstanceLogger.__init__(echo, name). *)
InstanceLogger(echo, name, h, ld) ==
    LET ld1 == getLogger(ld, name)
        ld2 == IF NeedsDefaultHandler(echo, ld1[name])
               THEN _add_default_handler(ld1, name) ELSE ld1
        k == FreshId(h)
    IN [self |-> AdapterRef(k),
        heap |-> h @@ (k :> [echo |-> echo, logger |-> name]),
        loggerDict |-> ld2]

(* InstanceLogger.getEffectiveLevel, self = [echo, logger]. *)
getEffectiveLevel(self, ld) ==
    LET level == _echo_map[self.echo]
    IN IF level = NOTSET THEN EffectiveLevel(ld, self.logger) ELSE level

(* isEnabledFor handed on to the wrapped backend logger. *)
isEnabledFor_delegated(self, ld, dis, level) ==
    BackendIsEnabledFor(ld, dis, self.logger, level)

(* InstanceLogger.isEnabledFor. *)
isEnabledFor(self, ld, dis, level) ==
    IF dis >= level THEN FALSE
    ELSE level >= getEffectiveLevel(self, ld)

(* log with the override consulted before manager.disable. *)
log_override_first(self, ld, dis, level, msg, args, exc) ==
    LET sel0 == _echo_map[self.echo]
        rec == << Record(self.logger, level, msg, args, exc,
                         IF STACKLEVEL THEN 1 + STACKLEVEL_OFFSET ELSE 1) >>
    IN IF sel0 # NOTSET /\ level >= sel0 THEN rec
       ELSE IF dis >= level THEN << >>
       ELSE IF level >= EffectiveLevel(ld, self.logger) THEN rec ELSE << >>

(* log with a strict comparison against the selected level. *)
log_strict(self, ld, dis, level, msg, args, exc) ==
    IF dis >= level THEN << >>
    ELSE LET sel0 == _echo_map[self.echo]
             selected_level == IF sel0 = NOTSET
                               THEN EffectiveLevel(ld, self.logger) ELSE sel0
         IN IF level > selected_level
            THEN << Record(self.logger, level, msg, args, exc,
                           IF STACKLEVEL THEN 1 + STACKLEVEL_OFFSET ELSE 1) >>
            ELSE << >>

(* InstanceLogger.log: the records handed to self.logger._log. *)
log(self, ld, dis, level, msg, args, exc) ==
    IF dis >= level THEN << >>
    ELSE LET sel0 == _echo_map[self.echo]
             selected_level == IF sel0 = NOTSET
                               THEN EffectiveLevel(ld, self.logger) ELSE sel0
         IN IF level >= selected_level
            THEN << Record(self.logger, level, msg, args, exc,
                           IF STACKLEVEL THEN 1 + STACKLEVEL_OFFSET ELSE 1) >>
            ELSE << >>

(* InstanceLogger.debug / info / warning / error / exception / critical. *)
debug(self, ld, dis, msg, args) == log(self, ld, dis, DEBUG, msg, args, 0)

info(self, ld, dis, msg, args) == log(self, ld, dis, INFO, msg, args, 0)

warning(self, ld, dis, msg, args) == log(self, ld, dis, WARNING, msg, args, 0)

error(self, ld, dis, msg, args) == log(self, ld, dis, ERROR, msg, args, 0)

exception(self, ld, dis, msg, args) == log(self, ld, dis, ERROR, msg, args, 1)

critical(self, ld, dis, msg, args) == log(self, ld, dis, CRITICAL, msg, args, 0)

----------------------------------------------------------------------------
(* What a slot's holder answers, whichever kind of logger it holds. *)

BindingEffectiveLevel(b, h, ld) ==
    IF b.kind = "InstanceLogger" THEN getEffectiveLevel(h[b.id], ld)
    ELSE EffectiveLevel(ld, b.name)

BindingIsEnabledFor(b, h, ld, dis, level) ==
    IF b.kind = "InstanceLogger" THEN isEnabledFor(h[b.id], ld, dis, level)
    ELSE BackendIsEnabledFor(ld, dis, b.name, level)

MethodLevel(m, level) ==
    CASE m = "log" -> level
      [] m = "debug" -> DEBUG
      [] m = "info" -> INFO
      [] m = "warning" -> WARNING
      [] m = "error" -> ERROR
      [] m = "exception" -> ERROR
      [] m = "critical" -> CRITICAL

(* b.<m>(msg, *args), with level the first argument when m is "log". *)
BindingCall(b, h, ld, dis, m, level, msg, args) ==
    IF b.kind = "InstanceLogger"
    THEN CASE m = "log" -> log(h[b.id], ld, dis, level, msg, args, 0)
           [] m = "debug" -> debug(h[b.id], ld, dis, msg, args)
           [] m = "info" -> info(h[b.id], ld, dis, msg, args)
           [] m = "warning" -> warning(h[b.id], ld, dis, msg, args)
           [] m = "error" -> error(h[b.id], ld, dis, msg, args)
           [] m = "exception" -> exception(h[b.id], ld, dis, msg, args)
           [] m = "critical" -> critical(h[b.id], ld, dis, msg, args)
    ELSE BackendLog(ld, dis, b.name, MethodLevel(m, level), msg, args,
                    IF m = "exception" THEN 1 ELSE 0)

(* Attribute lookup instance.logger: the instance's slot, else the class's. *)
LoggerAttr(i) ==
    IF logger[i].kind # "NoAttr" THEN logger[i] ELSE cls_logger[cls[i]]

HasLogger(i) == LoggerAttr(i).kind # "NoAttr"

(* The helpers answering from the class logger on every class. *)
_should_log_class_only(i, level) ==
    BackendIsEnabledFor(loggerDict, manager_disable,
                        _qual_logger_name_for_cls(cls[i]), level)

(* Identified._should_log_debug / _should_log_info, or the lambdas that *)
(* class_logger puts in their place on a registered class.              *)
_should_log(i, level) ==
    IF cls_should_log[cls[i]] # PyNone
    THEN BackendIsEnabledFor(loggerDict, manager_disable,
                             cls_should_log[cls[i]], level)
    ELSE BindingIsEnabledFor(LoggerAttr(i), heap, loggerDict,
                             manager_disable, level)

_should_log_debug(i) == _should_log(i, DEBUG)

_should_log_info(i) == _should_log(i, INFO)

(* echo_property.__get__ with an instance. *)
echo_property_get(i) == _echo[i]

----------------------------------------------------------------------------
(* instance_logger *)

(* Name resolution that drops the instance's label. *)
InstanceName_no_label(i) == _qual_logger_name_for_cls(cls[i])

(* The name instance_logger resolves for an instance. *)
InstanceName(i) ==
    IF Truthy(logging_name[i])
    THEN _qual_logger_name_for_cls(cls[i]) \o Dot \o logging_name[i]
    ELSE _qual_logger_name_for_cls(cls[i])

StoredEchoAsBool(echoflag) ==
    IF echoflag \in {"True", "debug"} THEN "True" ELSE "False"

(* instance._echo = echoflag *)
StoredEcho(echoflag) == echoflag

(* The logger instance_logger builds for echoflag and name. *)
Build(echoflag, name, h, ld) ==
    IF echoflag \in {"False", "None"}
    THEN [self |-> LoggerRef(name), heap |-> h, loggerDict |-> getLogger(ld, name)]
    ELSE InstanceLogger(echoflag, name, h, ld)

(* Adapters still referenced: by a slot, or by a call or a build in flight. *)
ReferencedBy(lg, w, l) == {lg[i].id : i \in Instances} \cup {w.id, l.id}

Referenced(lg) == ReferencedBy(lg, wLogger, lSelf)

Collect(h, ids) == [k \in (DOMAIN h) \cap ids |-> h[k]]

(* instance_logger that updates an adapter already in the slot in place. *)
instance_logger_in_place(i, echoflag) ==
    LET b == Build(echoflag, InstanceName(i), heap, loggerDict)
        lg == [logger EXCEPT ![i] = b.self]
        reuse == logger[i].kind = "InstanceLogger" /\ echoflag \in {"True", "debug"}
    IN /\ pcW = "idle"
       /\ _echo' = [_echo EXCEPT ![i] = StoredEcho(echoflag)]
       /\ logger' = IF reuse THEN logger ELSE lg
       /\ heap' = IF reuse THEN [heap EXCEPT ![logger[i].id].echo = echoflag]
                  ELSE Collect(b.heap, Referenced(lg))
       /\ loggerDict' = b.loggerDict
       /\ called' = << >> /\ emitted' = << >>
       /\ UNCHANGED << classVars, regVars, manager_disable, threadVars >>

instance_logger(i, echoflag) ==
    LET b == Build(echoflag, InstanceName(i), heap, loggerDict)
        lg == [logger EXCEPT ![i] = b.self]
    IN /\ pcW = "idle"
       /\ _echo' = [_echo EXCEPT ![i] = StoredEcho(echoflag)]
       /\ logger' = lg
       /\ heap' = Collect(b.heap, Referenced(lg))
       /\ loggerDict' = b.loggerDict
       /\ called' = << >> /\ emitted' = << >>
       /\ UNCHANGED << classVars, regVars, manager_disable, threadVars >>

(* echo_property.__set__ *)
echo_property_set(i, value) == instance_logger(i, value)

class_logger(c) ==
    LET name == _qual_logger_name_for_cls(c)
    IN /\ c \notin _logged_classes
       /\ loggerDict' = getLogger(loggerDict, name)
       /\ cls_should_log' = [cls_should_log EXCEPT ![c] = name]
       /\ cls_logger' = [cls_logger EXCEPT ![c] = LoggerRef(name)]
       /\ _logged_classes' = _logged_classes \cup {c}
       /\ called' = << >> /\ emitted' = << >>
       /\ UNCHANGED << classVars, instVars, manager_disable, threadVars >>

----------------------------------------------------------------------------
(* Configuration of the backend by the application. *)

setLevel(n, level) ==
    /\ loggerDict' = [getLogger(loggerDict, n) EXCEPT ![n].level = level]
    /\ called' = << >> /\ emitted' = << >>
    /\ UNCHANGED << classVars, instVars, regVars, manager_disable, threadVars >>

disable(level) ==
    /\ manager_disable' = level
    /\ called' = << >> /\ emitted' = << >>
    /\ UNCHANGED << classVars, instVars, regVars, loggerDict, threadVars >>

----------------------------------------------------------------------------
(* Calls through instance.logger. *)

Call(i, m, level) ==
    /\ HasLogger(i)
    /\ called' = << [inst |-> i, method |-> m, level |-> level] >>
    /\ emitted' = BindingCall(LoggerAttr(i), heap, loggerDict, manager_disable,
                              m, level, Msg, Args)
    /\ UNCHANGED << classVars, instVars, regVars, loggerDict, manager_disable,
                    threadVars >>

LogCall(i, level) == Call(i, "log", level)

DebugCall(i) == Call(i, "debug", DEBUG)

InfoCall(i) == Call(i, "info", INFO)

WarningCall(i) == Call(i, "warning", WARNING)

ErrorCall(i) == Call(i, "error", ERROR)

ExceptionCall(i) == Call(i, "exception", ERROR)

CriticalCall(i) == Call(i, "critical", CRITICAL)

----------------------------------------------------------------------------
ThreadsIdle ==
    /\ pcW = "idle" /\ wInst = "i1" /\ wEcho = "None" /\ wLogger = NoAttr
    /\ pcL = "idle" /\ lInst = "i1" /\ lLevel = NOTSET /\ lSelf = NoAttr
    /\ lSelected = NOTSET /\ lResult = "none" /\ lCands = {}

Fresh ==
    /\ _echo = [i \in Instances |-> "NoAttr"]
    /\ logger = [i \in Instances |-> NoAttr]
    /\ cls_logger = [c \in Classes |-> NoAttr]
    /\ cls_should_log = [c \in Classes |-> PyNone]
    /\ _logged_classes = {}
    /\ heap = << >>
    /\ loggerDict = (rootlogger :> [level |-> WARNING, handlers |-> << >>])
    /\ manager_disable = 0
    /\ called = << >>
    /\ emitted = << >>

Init ==
    /\ _sqla_logger_namespace = [c \in Classes |-> PyNone]
    /\ cls = [i \in Instances |-> "Engine"]
    /\ logging_name \in {[i \in Instances |-> PyNone],
                         [i \in Instances |-> IF i = "i1" THEN PyNone ELSE << "a" >>]}
    /\ Fresh
    /\ ThreadsIdle

Next ==
    \/ \E c \in Classes : class_logger(c)
    \/ \E i \in Instances, e \in EchoValues : instance_logger(i, e)
    \/ \E i \in Instances, e \in EchoValues : echo_property_set(i, e)
    \/ \E n \in ConfigNames, l \in ConfigLevels : setLevel(n, l)
    \/ \E l \in DisableLevels : disable(l)
    \/ \E i \in Instances, l \in CallLevels : LogCall(i, l)
    \/ \E i \in Instances : DebugCall(i)
    \/ \E i \in Instances : InfoCall(i)
    \/ \E i \in Instances : WarningCall(i)
    \/ \E i \in Instances : ErrorCall(i)
    \/ \E i \in Instances : ExceptionCall(i)
    \/ \E i \in Instances : CriticalCall(i)

Spec == Init /\ [][Next]_vars

----------------------------------------------------------------------------
(* instance_logger and instance.logger.log, statement by statement, for a *)
(* write of echo on one thread and a log call on another.                 *)

ConcLevels == {DEBUG, INFO, ERROR}

(* What a call of b.log(level, ...) ends in. *)
Decide(b, h, level) ==
    IF b.kind = "NoAttr" THEN "raise"
    ELSE IF BindingCall(b, h, loggerDict, manager_disable, "log", level,
                        Msg, Args) # << >>
         THEN "emit" ELSE "none"

InFlight == pcL \in {"bound", "select", "compare"}

(* instance._echo = echoflag *)
W_Store(i, echoflag) ==
    /\ pcW = "idle"
    /\ _echo' = [_echo EXCEPT ![i] = StoredEcho(echoflag)]
    /\ wInst' = i /\ wEcho' = echoflag /\ pcW' = "stored"
    /\ UNCHANGED << classVars, logger, heap, regVars, loggerDict,
                    manager_disable, outVars, wLogger, pcL, lInst, lLevel,
                    lSelf, lSelected, lResult, lCands >>

(* logger = logging.getLogger(name), or logger = InstanceLogger(echoflag, name) *)
W_Build ==
    LET b == Build(wEcho, InstanceName(wInst), heap, loggerDict)
    IN /\ pcW = "stored"
       /\ heap' = b.heap
       /\ loggerDict' = b.loggerDict
       /\ wLogger' = b.self
       /\ pcW' = "built"
       /\ UNCHANGED << classVars, _echo, logger, regVars, manager_disable,
                       outVars, wInst, wEcho, pcL, lInst, lLevel, lSelf,
                       lSelected, lResult, lCands >>

(* instance.logger = logger *)
W_Assign ==
    LET lg == [logger EXCEPT ![wInst] = wLogger]
    IN /\ pcW = "built"
       /\ logger' = lg
       /\ heap' = Collect(heap, ReferencedBy(lg, NoAttr, lSelf))
       /\ wLogger' = NoAttr /\ wInst' = "i1" /\ wEcho' = "None"
       /\ pcW' = "idle"
       /\ lCands' = IF InFlight /\ lInst = wInst
                     THEN lCands \cup {Decide(wLogger, heap, lLevel)}
                     ELSE lCands
       /\ UNCHANGED << classVars, _echo, regVars, loggerDict, manager_disable,
                       outVars, pcL, lInst, lLevel, lSelf, lSelected, lResult >>

RereadSelf == LoggerAttr(lInst)

(* self inside InstanceLogger.log: the object the method was looked up on. *)
BoundSelf == lSelf

(* instance.logger.log: the attribute lookup that binds the method. *)
L_Read(i, level) ==
    /\ pcL = "idle"
    /\ lInst' = i /\ lLevel' = level
    /\ lSelf' = LoggerAttr(i)
    /\ lCands' = {Decide(LoggerAttr(i), heap, level)}
    /\ lSelected' = NOTSET
    /\ IF HasLogger(i)
       THEN pcL' = "bound" /\ lResult' = "none"
       ELSE pcL' = "done" /\ lResult' = "raise"
    /\ UNCHANGED << classVars, instVars, regVars, loggerDict, manager_disable,
                    outVars, pcW, wInst, wEcho, wLogger >>

(* The call reached a backend logger: Logger.log. *)
L_Backend ==
    /\ pcL = "bound" /\ lSelf.kind = "Logger"
    /\ emitted' = BackendLog(loggerDict, manager_disable, lSelf.name, lLevel,
                             Msg, Args, 0)
    /\ lResult' = IF emitted' # << >> THEN "emit" ELSE "none"
    /\ pcL' = "done"
    /\ UNCHANGED << classVars, instVars, regVars, loggerDict, manager_disable,
                    called, pcW, wInst, wEcho, wLogger, lInst, lLevel, lSelf,
                    lSelected, lCands >>

(* if self.logger.manager.disable >= level: return *)
L_Disable ==
    /\ pcL = "bound" /\ lSelf.kind = "InstanceLogger"
    /\ IF ~IsAdapterRef(BoundSelf)
       THEN pcL' = "done" /\ lResult' = "raise"
       ELSE IF manager_disable >= lLevel
            THEN pcL' = "done" /\ lResult' = "none"
            ELSE pcL' = "select" /\ lResult' = lResult
    /\ UNCHANGED << classVars, instVars, regVars, loggerDict, manager_disable,
                    outVars, pcW, wInst, wEcho, wLogger, lInst, lLevel, lSelf,
                    lSelected, lCands >>

(* selected_level = self._echo_map[self.echo], or the backend's level *)
L_Select ==
    /\ pcL = "select"
    /\ IF ~IsAdapterRef(BoundSelf)
       THEN pcL' = "done" /\ lResult' = "raise" /\ lSelected' = lSelected
       ELSE /\ lSelected' = getEffectiveLevel(heap[BoundSelf.id], loggerDict)
            /\ pcL' = "compare" /\ lResult' = lResult
    /\ UNCHANGED << classVars, instVars, regVars, loggerDict, manager_disable,
                    outVars, pcW, wInst, wEcho, wLogger, lInst, lLevel, lSelf,
                    lCands >>

(* if level >= selected_level: self.logger._log(level, msg, args, **kwargs) *)
L_Emit ==
    /\ pcL = "compare"
    /\ IF ~IsAdapterRef(BoundSelf)
       THEN lResult' = "raise" /\ emitted' = emitted
       ELSE IF lLevel >= lSelected
            THEN /\ lResult' = "emit"
                 /\ emitted' = << Record(heap[BoundSelf.id].logger, lLevel, Msg,
                                         Args, 0,
                                         IF STACKLEVEL THEN 1 + STACKLEVEL_OFFSET
                                         ELSE 1) >>
            ELSE lResult' = "none" /\ emitted' = emitted
    /\ pcL' = "done"
    /\ UNCHANGED << classVars, instVars, regVars, loggerDict, manager_disable,
                    called, pcW, wInst, wEcho, wLogger, lInst, lLevel, lSelf,
                    lSelected, lCands >>

(* The call returns and drops its reference to the logger. *)
L_Return ==
    /\ pcL = "done"
    /\ pcL' = "idle"
    /\ lSelf' = NoAttr /\ lInst' = "i1" /\ lLevel' = NOTSET
    /\ lSelected' = NOTSET /\ lResult' = "none" /\ lCands' = {}
    /\ emitted' = << >>
    /\ heap' = Collect(heap, ReferencedBy(logger, wLogger, NoAttr))
    /\ UNCHANGED << classVars, _echo, logger, regVars, loggerDict,
                    manager_disable, called, pcW, wInst, wEcho, wLogger >>

InitConc ==
    /\ _sqla_logger_namespace = [c \in Classes |-> PyNone]
    /\ cls = [i \in Instances |-> "Engine"]
    /\ logging_name = [i \in Instances |-> PyNone]
    /\ _echo = [i \in Instances |-> "NoAttr"]
    /\ logger = [i \in Instances |-> NoAttr]
    /\ cls_logger = [c \in Classes |-> NoAttr]
    /\ cls_should_log = [c \in Classes |-> PyNone]
    /\ _logged_classes = {}
    /\ heap = << >>
    /\ \E l \in ConfigLevels :
          loggerDict = [getLogger((rootlogger :> [level |-> WARNING,
                                                  handlers |-> << >>]),
                                  << "s", ".", "E" >>)
                           EXCEPT ![<< "s", ".", "E" >>].level = l]
    /\ manager_disable \in DisableLevels
    /\ called = << >>
    /\ emitted = << >>
    /\ ThreadsIdle

NextConc ==
    \/ \E i \in Instances, e \in EchoValues : W_Store(i, e)
    \/ W_Build
    \/ W_Assign
    \/ \E i \in Instances, l \in ConcLevels : L_Read(i, l)
    \/ L_Backend
    \/ L_Disable
    \/ L_Select
    \/ L_Emit
    \/ L_Return

SpecConc == InitConc /\ [][NextConc]_vars

----------------------------------------------------------------------------
(* Name resolution on its own: every class namespace and every label. *)

InitNames ==
    /\ _sqla_logger_namespace \in [Classes -> Namespaces]
    /\ cls = [i \in Instances |-> "Engine"]
    /\ logging_name \in [Instances -> Labels]
    /\ Fresh
    /\ ThreadsIdle

NextNames ==
    \/ \E i \in Instances, e \in EchoValues : instance_logger(i, e)
    \/ \E i \in Instances, e \in EchoValues : echo_property_set(i, e)

SpecNames == InitNames /\ [][NextNames]_vars

----------------------------------------------------------------------------
(* Properties. *)

Built(i) == _echo[i] # "NoAttr"

IsAdapter(b) == b.kind = "InstanceLogger"

(* The backend logger a binding ends at. *)
BackendNameOf(b) == IF IsAdapter(b) THEN heap[b.id].logger ELSE b.name

(* The effective level the spec gives an adapter with override e on logger n. *)
SpecEffectiveLevel(e, n) ==
    CASE e = "True" -> INFO
      [] e = "debug" -> DEBUG
      [] OTHER -> EffectiveLevel(loggerDict, n)

(* C1: a log call whose level is at or below manager.disable hands nothing *)
(* to the backend, whatever the echo override of the adapter.              *)
C1_SuppressedCallEmitsNothing ==
    /\ \A k \in DOMAIN called :
          manager_disable >= called[k].level => emitted = << >>
    /\ \A e \in EchoValues, n \in DOMAIN loggerDict, l \in CallLevels :
          manager_disable >= l =>
             log([echo |-> e, logger |-> n], loggerDict, manager_disable,
                 l, Msg, Args, 0) = << >>

C1_Witness ==
    /\ called # << >>
    /\ IsAdapter(LoggerAttr(called[1].inst))
    /\ heap[LoggerAttr(called[1].inst).id].echo = "debug"
    /\ called[1].method = "log"
    /\ called[1].level = INFO
    /\ manager_disable >= INFO
    /\ emitted = << >>

(* C2 as stated: with override True, isEnabledFor(INFO) is true whatever the *)
(* ambient level.                                                            *)
C2_EnabledForInfoUnconditionally ==
    \A i \in Instances :
        (_echo[i] = "True" /\ IsAdapter(logger[i])) =>
            BindingIsEnabledFor(logger[i], heap, loggerDict, manager_disable, INFO)

(* C2: with override True and manager.disable below INFO, isEnabledFor(INFO) *)
(* is true whatever the ambient level of the namespace.                      *)
C2_EnabledForInfoUnlessSuppressed ==
    \A i \in Instances :
        (_echo[i] = "True" /\ IsAdapter(logger[i]) /\ manager_disable < INFO) =>
            BindingIsEnabledFor(logger[i], heap, loggerDict, manager_disable, INFO)

C2_Witness ==
    \E i \in Instances :
        /\ _echo[i] = "True" /\ IsAdapter(logger[i])
        /\ manager_disable < INFO
        /\ EffectiveLevel(loggerDict, InstanceName(i)) = ERROR
        /\ BindingIsEnabledFor(logger[i], heap, loggerDict, manager_disable, INFO)

(* C3: a backend logger never carries more than one default handler, and *)
(* the logger of every adapter built through instance_logger carries     *)
(* exactly one.                                                          *)
C3_DefaultHandlerOnce ==
    /\ \A n \in DOMAIN loggerDict : Len(loggerDict[n].handlers) <= 1
    /\ \A i \in Instances :
          IsAdapter(logger[i]) =>
             loggerDict[heap[logger[i].id].logger].handlers = << DefaultHandler >>

C3_Witness ==
    /\ \A i \in Instances : IsAdapter(logger[i]) /\ _echo[i] = "True"
    /\ InstanceName("i1") = InstanceName("i2")
    /\ Len(loggerDict[InstanceName("i1")].handlers) = 1

(* C4: a write of v to echo is followed by a read of echo that returns v. *)
C4_EchoRoundTrip ==
    [][\A i \in Instances, v \in EchoValues :
          (called' = << >> /\ echo_property_set(i, v))
             => (echo_property_get(i))' = v]_vars

C4_Witness ==
    /\ echo_property_get("i1") = "debug"
    /\ IsAdapter(logger["i1"])
    /\ echo_property_get("i2") = "False"

C6_NameResolution ==
    \A i \in Instances, j \in Instances :
        (Built(i) /\ Built(j) /\ cls[i] = cls[j]) =>
            /\ (Truthy(logging_name[i]) /\ Truthy(logging_name[j])
                  /\ logging_name[i] # logging_name[j])
                  => BackendNameOf(logger[i]) # BackendNameOf(logger[j])
            /\ Truthy(logging_name[i]) =>
                  BackendNameOf(logger[i]) =
                     _qual_logger_name_for_cls(cls[i]) \o Dot \o logging_name[i]
            /\ (~Truthy(logging_name[i]) /\ ~Truthy(logging_name[j])) =>
                  /\ BackendNameOf(logger[i]) = BackendNameOf(logger[j])
                  /\ BackendNameOf(logger[i]) = _qual_logger_name_for_cls(cls[i])
                  /\ EffectiveLevel(loggerDict, BackendNameOf(logger[i]))
                        = EffectiveLevel(loggerDict, BackendNameOf(logger[j]))

C6_Witness ==
    /\ Built("i1") /\ Built("i2")
    /\ logging_name["i1"] = << "a" >> /\ logging_name["i2"] = << "b" >>
    /\ BackendNameOf(logger["i1"]) # BackendNameOf(logger["i2"])
    /\ _sqla_logger_namespace["Engine"] = << "s", ".", "n" >>

(* The binding an instance holds matches its stored echo. *)
C7_Binding(i) ==
    /\ _echo[i] \in {"None", "False"} =>
          /\ logger[i] = LoggerRef(InstanceName(i))
          /\ InstanceName(i) \in DOMAIN loggerDict
    /\ _echo[i] \in {"True", "debug"} =>
          /\ IsAdapter(logger[i])
          /\ logger[i].id \in DOMAIN heap
          /\ heap[logger[i].id] = [echo |-> _echo[i], logger |-> InstanceName(i)]
          /\ \A j \in Instances \ {i} : logger[j] # logger[i]

(* C7: once built, an instance holds one binding: the backend logger of its *)
(* namespace when echo is None or False, an adapter carrying that echo and  *)
(* that logger when echo is True or "debug"; a write installs a new         *)
(* binding and leaves every adapter built before as it was.                 *)
C7_OneBindingRebuiltOnWrite ==
    [][/\ \A i \in Instances : Built(i)' => C7_Binding(i)'
       /\ \A i \in Instances, v \in EchoValues :
             (called' = << >> /\ echo_property_set(i, v)) =>
                /\ Built(i)'
                /\ v \in {"True", "debug"} => logger'[i].id \notin DOMAIN heap
                /\ \A k \in (DOMAIN heap) \cap (DOMAIN heap') :
                      heap'[k] = heap[k]]_vars

C7_Witness ==
    /\ _echo["i1"] = "debug" /\ IsAdapter(logger["i1"])
    /\ _echo["i2"] = "True" /\ IsAdapter(logger["i2"])
    /\ logger["i1"].id = 2

(* C8: a call through an adapter hands the backend one record, with the    *)
(* call's level, message and arguments, exactly when manager.disable is    *)
(* below the level and the level is at least the effective level (INFO for *)
(* True, DEBUG for "debug", the backend's effective level otherwise); that *)
(* is exactly when isEnabledFor answers true; the named methods are log at *)
(* their level.                                                            *)
C8_EmitDecision ==
    /\ \A k \in DOMAIN called :
          LET c == called[k]
              b == LoggerAttr(c.inst)
              self == heap[b.id]
              should == /\ manager_disable < c.level
                        /\ c.level >= SpecEffectiveLevel(self.echo, self.logger)
          IN IsAdapter(b) =>
                /\ c.level = MethodLevel(c.method, c.level)
                /\ should = isEnabledFor(self, loggerDict, manager_disable, c.level)
                /\ should => /\ Len(emitted) = 1
                             /\ emitted[1].name = self.logger
                             /\ emitted[1].level = c.level
                             /\ emitted[1].msg = Msg
                             /\ emitted[1].args = Args
                /\ ~should => emitted = << >>
    /\ \A e \in EchoValues, n \in DOMAIN loggerDict, l \in CallLevels :
          LET self == [echo |-> e, logger |-> n]
              out == log(self, loggerDict, manager_disable, l, Msg, Args, 0)
              should == /\ manager_disable < l
                        /\ l >= SpecEffectiveLevel(e, n)
          IN /\ getEffectiveLevel(self, loggerDict) = SpecEffectiveLevel(e, n)
             /\ should = isEnabledFor(self, loggerDict, manager_disable, l)
             /\ Len(out) = IF should THEN 1 ELSE 0

C8_Witness ==
    /\ called # << >>
    /\ called[1].method = "info"
    /\ IsAdapter(LoggerAttr(called[1].inst))
    /\ heap[LoggerAttr(called[1].inst).id].echo = "True"
    /\ EffectiveLevel(loggerDict, InstanceName(called[1].inst)) = ERROR
    /\ Len(emitted) = 1 /\ emitted[1].level = INFO

C9_OldOrNewDecision ==
    pcL = "done" =>
        /\ lResult \in lCands
        /\ lResult = Decide(lSelf, heap, lLevel)

C9_Witness ==
    /\ pcL = "done"
    /\ lCands = {"emit", "none"}
    /\ lResult = "emit"
    /\ pcW = "idle"
    /\ logger[lInst] # lSelf

====
